---------------------------- MODULE Spec2Model ----------------------------
(***************************************************************************)
(* Path-warping geometry core of fiddlesticks: the curve sampler and the   *)
(* dual-boundary projector (PaperHelpers in SketchStore.ts, and the older  *)
(* PathHelper copy), and the DualBoundsPathWarp composite that uses them.  *)
(*                                                                         *)
(* Numbers.  The source computes in IEEE doubles; the model computes in    *)
(* exact rationals <<n, d>> (d > 0, lowest terms), so that length / n,     *)
(* u * length and the interpolation are exact.  Rounding of doubles is     *)
(* outside the model.                                                      *)
(*                                                                         *)
(* Curves.  paper.js is not part of the repository.  A paper.Path is       *)
(* modelled after the data model of the specification: a list of anchor    *)
(* points joined by straight, axis-parallel pieces (so that every length   *)
(* is an integer), a closed flag and a winding (clockwise) flag;           *)
(* getPointAt(d) is the point at arc length d, clamped at the far end,     *)
(* and null on a curve without geometry.                                   *)
(***************************************************************************)
EXTENDS Integers, Sequences, FiniteSets, TLC

VARIABLES
    call,          \* the last call of a PaperHelpers / PathHelper function
    source,        \* DualBoundsPathWarp._source
    upper,         \* DualBoundsPathWarp._upper
    lower,         \* DualBoundsPathWarp._lower
    warped,        \* DualBoundsPathWarp._warped
    outline,       \* DualBoundsPathWarp._outline
    customStyle,   \* DualBoundsPathWarp._customStyle
    selected,      \* paper.Item.selected of the composite
    warpLog,       \* the boundary queries of the last updateWarped
    events,        \* the last handler that ran and the steps it took, in order
    removed,       \* the composite was removed from the scene
    state,         \* SketchStore.state
    localStorage,  \* the sketch under LOCAL_SKETCH_KEY in the local storage
    timer,         \* the autosave: its subscriptions and their delay
    storeLog,      \* the last step of the store and its calls of saveSketch
    fonts,         \* ParsedFonts.fonts
    loading,       \* the calls of opentype.load that have not called back
    fontLog        \* the calls ParsedFonts has made and received

helperVars == <<call>>
warpVars == <<source, upper, lower, warped, outline, customStyle, selected, warpLog,
              events, removed>>
storeVars == <<state, localStorage, timer, storeLog>>
fontVars == <<fonts, loading, fontLog>>
vars == <<call, source, upper, lower, warped, outline, customStyle, selected, warpLog,
          events, removed, state, localStorage, timer, storeLog, fonts, loading, fontLog>>

\* The absent value (null) of the source.
NULL == [null |-> TRUE]

(***************************************************************************)
(* Exact rational arithmetic.                                              *)
(***************************************************************************)
Abs(a) == IF a < 0 THEN -a ELSE a

RECURSIVE GCD(_, _)
GCD(a, b) == IF b = 0 THEN a ELSE GCD(b, a % b)

\* n / d in lowest terms with a positive denominator (d # 0).
Rat(n, d) ==
    LET g == GCD(Abs(n), Abs(d))
        s == IF d < 0 THEN -1 ELSE 1
    IN  <<(s * n) \div g, (s * d) \div g>>

Num(n) == <<n, 1>>
RAdd(a, b) == Rat(a[1] * b[2] + b[1] * a[2], a[2] * b[2])
RSub(a, b) == Rat(a[1] * b[2] - b[1] * a[2], a[2] * b[2])
RMul(a, b) == Rat(a[1] * b[1], a[2] * b[2])
RDiv(a, b) == Rat(a[1] * b[2], a[2] * b[1])
RLe(a, b) == a[1] * b[2] <= b[1] * a[2]
RLt(a, b) == a[1] * b[2] < b[1] * a[2]
\* Math.min
RMin(a, b) == IF RLe(a, b) THEN a ELSE b

(***************************************************************************)
(* paper.Point: add, subtract, multiply by a number.                       *)
(***************************************************************************)
Pt(x, y) == [x |-> Num(x), y |-> Num(y)]
PAdd(p, q) == [x |-> RAdd(p.x, q.x), y |-> RAdd(p.y, q.y)]
PSub(p, q) == [x |-> RSub(p.x, q.x), y |-> RSub(p.y, q.y)]
PMul(p, k) == [x |-> RMul(p.x, k), y |-> RMul(p.y, k)]

(***************************************************************************)
(* paper.Path: segments (anchor points), closed, clockwise.                *)
(***************************************************************************)
Reverse(s) == [i \in 1..Len(s) |-> s[Len(s) + 1 - i]]

\* The anchors a walk along the path passes: a closed path returns to its start.
Anchors(path) ==
    IF path.closed /\ Len(path.segments) > 1
    THEN Append(path.segments, path.segments[1])
    ELSE path.segments

\* The length of the straight piece from p to q (one of dx, dy is zero).
PieceLength(p, q) ==
    LET dx == RSub(q.x, p.x)
        dy == RSub(q.y, p.y)
    IN  RAdd(Rat(Abs(dx[1]), dx[2]), Rat(Abs(dy[1]), dy[2]))

RECURSIVE LengthUpTo(_, _)
LengthUpTo(a, k) ==
    IF k <= 1 THEN Num(0)
    ELSE RAdd(LengthUpTo(a, k - 1), PieceLength(a[k - 1], a[k]))

\* path.length
Length(path) == LET a == Anchors(path) IN LengthUpTo(a, Len(a))

\* The point at distance d from the start of the walk a, from piece k on;
\* start is the length of the pieces before k.
RECURSIVE WalkTo(_, _, _, _)
WalkTo(a, k, start, d) ==
    LET len == PieceLength(a[k], a[k + 1])
        end == RAdd(start, len)
    IN  IF RLt(d, end)
        THEN PAdd(a[k], PMul(PSub(a[k + 1], a[k]), RDiv(RSub(d, start), len)))
        ELSE IF k + 1 = Len(a) THEN a[k + 1]
        ELSE WalkTo(a, k + 1, end, d)

\* path.getPointAt(offset): null on a path without a curve (fewer than two
\* anchors); otherwise the point at that arc length, clamped at the far end.
getPointAt(path, offset) ==
    LET a == Anchors(path)
    IN  IF Len(a) < 2 THEN NULL ELSE WalkTo(a, 1, Num(0), offset)

\* Twice the signed area of the polygon through pts (positive: clockwise
\* in the y-down coordinates of the canvas).
RECURSIVE Area2(_, _)
Area2(pts, k) ==
    IF k = 0 THEN Num(0)
    ELSE LET p == pts[k]
             q == pts[(k % Len(pts)) + 1]
         IN  RAdd(Area2(pts, k - 1),
                  RSub(RMul(p.x, q.y), RMul(q.x, p.y)))

\* path.clockwise of a path whose winding was not set by its creator: the
\* winding of its anchors (a path that encloses no area counts as clockwise).
IsClockwise(pts) == RLe(Num(0), Area2(pts, Len(pts)))

\* new paper.Path({segments, closed, clockwise})
Path(segments, closed, clockwise) ==
    [segments |-> segments, closed |-> closed, clockwise |-> clockwise]

\* new paper.Path(points): an open path; the winding is that of the points
\* (clockwise when a point is null, as for a path that encloses no area).
PathOfPoints(points) ==
    Path(points, FALSE,
         IF \E i \in 1..Len(points) : points[i] = NULL THEN TRUE
         ELSE IsClockwise(points))

\* new paper.CompoundPath({children, clockwise})
CompoundPath(children, clockwise) ==
    [children |-> children, clockwise |-> clockwise]

(***************************************************************************)
(* PaperHelpers (SketchStore.ts): the curve sampler.                       *)
(***************************************************************************)
\* while (i++ < numPoints): the test, made before i is incremented.
LoopCondInclusive(i, numPoints) == i <= numPoints
LoopCond(i, numPoints) == i < numPoints

\* Math.min(offset, pathLength): the arc length the curve is queried at.
SampleOffsetMax(offset, pathLength) == IF RLe(offset, pathLength) THEN pathLength ELSE offset
SampleOffset(offset, pathLength) == RMin(offset, pathLength)

\* The loop of tracePathAsPoints from the state st = [i, offset, points,
\* queries]; queries lists the arguments of the getPointAt calls.
RECURSIVE TraceLoop(_, _, _, _, _)
TraceLoop(path, numPoints, pathLength, offsetIncr, st) ==
    IF LoopCond(st.i, numPoints)
    THEN LET at == SampleOffset(st.offset, pathLength)
             point == getPointAt(path, at)
         IN  TraceLoop(path, numPoints, pathLength, offsetIncr,
                       [i |-> st.i + 1,
                        offset |-> RAdd(st.offset, offsetIncr),
                        points |-> Append(st.points, point),
                        queries |-> Append(st.queries, at)])
    ELSE st

\* One run of tracePathAsPoints: its final loop state.
TraceRun(path, numPoints) ==
    LET pathLength == Length(path)
        offsetIncr == RDiv(pathLength, Num(numPoints))
    IN  TraceLoop(path, numPoints, pathLength, offsetIncr,
                  [i |-> 0, offset |-> Num(0), points |-> <<>>, queries |-> <<>>])

tracePathAsPoints(path, numPoints) == TraceRun(path, numPoints).points

tracePath(path, numPoints) ==
    Path(tracePathAsPoints(path, numPoints), TRUE, path.clockwise)

traceCompoundPathNoGuard(path, pointsPerPath) ==
    CompoundPath([i \in 1..Len(path.children) |->
                     tracePath(path.children[i], pointsPerPath)],
                 path.clockwise)
traceCompoundPath(path, pointsPerPath) ==
    IF Len(path.children) = 0 THEN NULL
    ELSE CompoundPath([i \in 1..Len(path.children) |->
                          tracePath(path.children[i], pointsPerPath)],
                      path.clockwise)

\* path.className === 'CompoundPath'
IsCompound(path) == "children" \in DOMAIN path

tracePathItem(path, pointsPerPath) ==
    IF IsCompound(path) THEN traceCompoundPath(path, pointsPerPath)
    ELSE tracePath(path, pointsPerPath)

(***************************************************************************)
(* PathHelper: the older copy of the sampler.  Its loop is the loop of     *)
(* tracePathAsPoints; its tracePath builds the path from the points alone. *)
(***************************************************************************)
PathHelper_tracePath(path, numPoints) ==
    PathOfPoints(TraceRun(path, numPoints).points)

PathHelper_traceCompoundPath(path, pointsPerPath) ==
    IF Len(path.children) = 0 THEN NULL
    ELSE CompoundPath([i \in 1..Len(path.children) |->
                          PathHelper_tracePath(path.children[i], pointsPerPath)],
                      path.clockwise)

PathHelper_tracePathItem(path, pointsPerPath) ==
    IF IsCompound(path) THEN PathHelper_traceCompoundPath(path, pointsPerPath)
    ELSE PathHelper_tracePath(path, pointsPerPath)

(***************************************************************************)
(* PaperHelpers: the dual-boundary projector.                              *)
(***************************************************************************)
\* What the closure returned by dualBoundsPathProjection captures by value.
dualBoundsPathProjection(topPath, bottomPath) ==
    [topPathLength |-> Length(topPath), bottomPathLength |-> Length(bottomPath)]

TopOffset(unitPoint, topPathLength) == RMul(unitPoint.x, topPathLength)

BottomOffsetByV(unitPoint, bottomPathLength) == RMul(unitPoint.y, bottomPathLength)
BottomOffset(unitPoint, bottomPathLength) == RMul(unitPoint.x, bottomPathLength)

\* topPoint.add(bottomPoint.subtract(topPoint).multiply(unitPoint.y))
InterpolateFromBottom(topPoint, bottomPoint, v) ==
    PAdd(bottomPoint, PMul(PSub(topPoint, bottomPoint), v))
Interpolate(topPoint, bottomPoint, v) ==
    PAdd(topPoint, PMul(PSub(bottomPoint, topPoint), v))

\* topPoint == null || bottomPoint == null: what is returned then.
FallbackBottom(topPoint, bottomPoint) ==
    IF topPoint = NULL THEN bottomPoint ELSE topPoint
Fallback(topPoint, bottomPoint) == topPoint

\* One call of the closure on unitPoint; topPath and bottomPath are the
\* curves it refers to, as they are at the time of the call.
ProjectionCallRereading(projection, topPath, bottomPath, unitPoint) ==
    LET topAt == TopOffset(unitPoint, Length(topPath))
        bottomAt == BottomOffset(unitPoint, Length(bottomPath))
        topPoint == getPointAt(topPath, topAt)
        bottomPoint == getPointAt(bottomPath, bottomAt)
        failed == topPoint = NULL \/ bottomPoint = NULL
    IN  [ret |-> IF failed THEN Fallback(topPoint, bottomPoint)
                 ELSE Interpolate(topPoint, bottomPoint, unitPoint.y),
         topPoint |-> topPoint,
         bottomPoint |-> bottomPoint,
         warned |-> failed,
         queries |-> <<[curve |-> "top", offset |-> topAt],
                       [curve |-> "bottom", offset |-> bottomAt]>>]
ProjectionCall(projection, topPath, bottomPath, unitPoint) ==
    LET topAt == TopOffset(unitPoint, projection.topPathLength)
        bottomAt == BottomOffset(unitPoint, projection.bottomPathLength)
        topPoint == getPointAt(topPath, topAt)
        bottomPoint == getPointAt(bottomPath, bottomAt)
        failed == topPoint = NULL \/ bottomPoint = NULL
    IN  [ret |-> IF failed THEN Fallback(topPoint, bottomPoint)
                 ELSE Interpolate(topPoint, bottomPoint, unitPoint.y),
         topPoint |-> topPoint,
         bottomPoint |-> bottomPoint,
         warned |-> failed,
         queries |-> <<[curve |-> "top", offset |-> topAt],
                       [curve |-> "bottom", offset |-> bottomAt]>>]

(***************************************************************************)
(* DualBoundsPathWarp.                                                     *)
(***************************************************************************)
POINTS_PER_PATH == 200

\* The model warps each contour at no more than this many points: the
\* density is POINTS_PER_PATH capped at MaxPointsPerPath.
MaxPointsPerPath == 4

PointsPerPath ==
    IF POINTS_PER_PATH < MaxPointsPerPath THEN POINTS_PER_PATH ELSE MaxPointsPerPath

\* The anchors of all children of a compound path.
RECURSIVE AllAnchors(_, _)
AllAnchors(children, k) ==
    IF k = 0 THEN <<>>
    ELSE AllAnchors(children, k - 1) \o children[k].segments

RMinOf(S) == CHOOSE m \in S : \A o \in S : RLe(m, o)
RMaxOf(S) == CHOOSE m \in S : \A o \in S : RLe(o, m)

\* item.bounds: the bounding rectangle (the empty rectangle at the origin
\* for an item without geometry).
Bounds(item) ==
    LET pts == AllAnchors(item.children, Len(item.children))
        xs == {pts[k].x : k \in 1..Len(pts)}
        ys == {pts[k].y : k \in 1..Len(pts)}
    IN  IF Len(pts) = 0
        THEN [topLeft |-> Pt(0, 0), width |-> Num(0), height |-> Num(0)]
        ELSE [topLeft |-> [x |-> RMinOf(xs), y |-> RMinOf(ys)],
              width |-> RSub(RMaxOf(xs), RMinOf(xs)),
              height |-> RSub(RMaxOf(ys), RMinOf(ys))]

\* A StretchPath read as a curve: an open path through its segments.
BoundaryCurve(bound) == Path(bound.segments, FALSE, IsClockwise(bound.segments))

\* new StretchPath(segments)
StretchPath(segments) == [segments |-> segments, visible |-> TRUE]

\* The point function handed to PathTransform in updateWarped, applied to
\* point (transformPoint applies that function to the point it is given);
\* frame is the bounding rectangle of the source.  The result is the
\* record of the projector call (ret, queries), or null passed through.
ProjectUnitSwapped(frame, projection, up, lo, relative) ==
    ProjectionCall(projection, up, lo,
                   [x |-> RDiv(relative.x, frame.height),
                    y |-> RDiv(relative.y, frame.width)])
ProjectUnit(frame, projection, up, lo, relative) ==
    ProjectionCall(projection, up, lo,
                   [x |-> RDiv(relative.x, frame.width),
                    y |-> RDiv(relative.y, frame.height)])

TransformPoint(frame, projection, up, lo, point) ==
    IF point = NULL THEN [ret |-> point, queries |-> <<>>]
    ELSE ProjectUnit(frame, projection, up, lo, PSub(point, frame.topLeft))

\* xPoints of updateWarped for one source contour: the sampled points, each
\* sent through the transform.
MapPoints(frame, projection, up, lo, points) ==
    [j \in 1..Len(points) |-> TransformPoint(frame, projection, up, lo, points[j])]

XPoints(frame, projection, up, lo, path) ==
    MapPoints(frame, projection, up, lo, tracePathAsPoints(path, PointsPerPath))

\* The map over this._source.children in updateWarped: for each contour,
\* for each sampled point, what the transform returned and queried.
WarpTraceOf(src, up, lo, frame, projection) ==
    [i \in 1..Len(src.children) |-> XPoints(frame, projection, up, lo, src.children[i])]

WarpTrace(src, up, lo) ==
    WarpTraceOf(src, BoundaryCurve(up), BoundaryCurve(lo), Bounds(src),
                dualBoundsPathProjection(BoundaryCurve(up), BoundaryCurve(lo)))

\* new paper.Path({segments: xPoints, closed: true, clockwise: path.clockwise})
XPathUnflagged(path, xPoints) ==
    Path([j \in 1..Len(xPoints) |-> xPoints[j].ret], TRUE, TRUE)
XPath(path, xPoints) ==
    Path([j \in 1..Len(xPoints) |-> xPoints[j].ret], TRUE, path.clockwise)

\* newPaths of updateWarped, from the trace of the map.
NewPaths(src, trace) ==
    [i \in 1..Len(src.children) |-> XPath(src.children[i], trace[i])]

\* this._warped.removeChildren(); this._warped.addChildren(newPaths)
AddChildrenOnly(old, newPaths) == old \o newPaths
InsertChildrenOnly(old, newPaths) == newPaths \o old
ReplaceChildren(old, newPaths) == newPaths

\* updateOutlineShape: the new segments of _outline.
OutlineSegmentsUnreversed(up, lo) == up.segments \o lo.segments
OutlineSegments(up, lo) == up.segments \o Reverse(lo.segments)

\* set customStyle: the fill and the opacity of _outline.
OutlineFillOpaque(value) ==
    IF value.backgroundColor # "" 
    THEN [fillColor |-> value.backgroundColor, opacity |-> 1]
    ELSE [fillColor |-> "white", opacity |-> 1]
OutlineFill(value) ==
    IF value.backgroundColor # "" 
    THEN [fillColor |-> value.backgroundColor, opacity |-> 1]
    ELSE [fillColor |-> "white", opacity |-> 0]

(***************************************************************************)
(* Inputs.                                                                 *)
(***************************************************************************)
\* The largest pointCount a helper is called with.
MaxPoints == 4

\* Unit coordinates are the multiples of 1 / UnitGrid in [0, 1].
UnitGrid == 4

\* A path as the library holds it: its winding is that of its anchors.
MkPath(segments, closed) == Path(segments, closed, IsClockwise(segments))

\* paper.Path.Rectangle: from the bottom left corner, clockwise.
Rect(x, y, w, h) ==
    MkPath(<<Pt(x, y + h), Pt(x, y), Pt(x + w, y), Pt(x + w, y + h)>>, TRUE)
RectCCW(x, y, w, h) ==
    MkPath(<<Pt(x + w, y + h), Pt(x + w, y), Pt(x, y), Pt(x, y + h)>>, TRUE)
Line(x1, y1, x2, y2) == MkPath(<<Pt(x1, y1), Pt(x2, y2)>>, FALSE)
Dot(x, y) == MkPath(<<Pt(x, y)>>, FALSE)

SamplePaths ==
    { Rect(0, 0, 100, 20), RectCCW(20, 5, 60, 10), Line(0, 0, 200, 0),
      MkPath(<<Pt(0, 0), Pt(100, 0), Pt(100, 40)>>, FALSE),
      Line(3, 3, 3, 3), Dot(5, 5), MkPath(<<>>, FALSE) }

\* A compound path as the library holds it.  The sources of the model are
\* glyph outlines: without children, or with a bounding rectangle of
\* positive width and height (the unit coordinates divide by both).
Compound(children) ==
    [children |-> children,
     clockwise |-> IF Len(children) = 0 THEN TRUE ELSE children[1].clockwise,
     visible |-> TRUE]

SampleCompounds ==
    { Compound(<<Rect(0, 0, 100, 20)>>),
      Compound(<<Rect(0, 0, 100, 20), RectCCW(20, 5, 60, 10)>>),
      Compound(<<RectCCW(20, 5, 60, 10), Rect(0, 0, 100, 20), Dot(5, 5)>>),
      Compound(<<>>) }

BoundarySegments ==
    { <<Pt(0, 0), Pt(200, 0)>>, <<Pt(0, 50), Pt(200, 50)>>,
      <<Pt(0, 0), Pt(100, 0), Pt(100, 40)>>, <<Pt(5, 5)>> }

BoundaryCurves == { MkPath(b, FALSE) : b \in BoundarySegments }

UnitValues == { Rat(k, UnitGrid) : k \in 0..UnitGrid }

(***************************************************************************)
(* The helper functions called by a client: call records the function,    *)
(* its arguments, what it returned and the getPointAt queries it made.     *)
(***************************************************************************)
NoCall == [op |-> "none"]

\* The record of one call of a function of a path and a point count.
CallRecord(op, path, numPoints, ret, queries) ==
    [op |-> op, path |-> path, numPoints |-> numPoints, ret |-> ret,
     queries |-> queries]

CallTracePathAsPoints(path, numPoints) ==
    /\ call = NoCall
    /\ call' = CallRecord("tracePathAsPoints", path, numPoints,
                          tracePathAsPoints(path, numPoints), TraceRun(path, numPoints).queries)
    /\ UNCHANGED <<warpVars, storeVars, fontVars>>

CallTracePath(path, numPoints) ==
    /\ call = NoCall
    /\ call' = CallRecord("tracePath", path, numPoints,
                          tracePath(path, numPoints), TraceRun(path, numPoints).queries)
    /\ UNCHANGED <<warpVars, storeVars, fontVars>>

CallTraceCompoundPath(path, numPoints) ==
    /\ call = NoCall
    /\ call' = CallRecord("traceCompoundPath", path, numPoints,
                          traceCompoundPath(path, numPoints), <<>>)
    /\ UNCHANGED <<warpVars, storeVars, fontVars>>

CallTracePathItem(path, numPoints) ==
    /\ call = NoCall
    /\ call' = CallRecord("tracePathItem", path, numPoints,
                          tracePathItem(path, numPoints), <<>>)
    /\ UNCHANGED <<warpVars, storeVars, fontVars>>

CallPathHelperTracePath(path, numPoints) ==
    /\ call = NoCall
    /\ call' = CallRecord("PathHelper.tracePath", path, numPoints,
                          PathHelper_tracePath(path, numPoints), TraceRun(path, numPoints).queries)
    /\ UNCHANGED <<warpVars, storeVars, fontVars>>

CallPathHelperTraceCompoundPath(path, numPoints) ==
    /\ call = NoCall
    /\ call' = CallRecord("PathHelper.traceCompoundPath", path, numPoints,
                          PathHelper_traceCompoundPath(path, numPoints), <<>>)
    /\ UNCHANGED <<warpVars, storeVars, fontVars>>

CallPathHelperTracePathItem(path, numPoints) ==
    /\ call = NoCall
    /\ call' = CallRecord("PathHelper.tracePathItem", path, numPoints,
                          PathHelper_tracePathItem(path, numPoints), <<>>)
    /\ UNCHANGED <<warpVars, storeVars, fontVars>>

\* The record of one call of the closure dualBoundsPathProjection returned.
ProjectionRecord(topPath, bottomPath, unitPoint, r) ==
    [op |-> "projection", topPath |-> topPath, bottomPath |-> bottomPath,
     unitPoint |-> unitPoint, ret |-> r.ret, topPoint |-> r.topPoint,
     bottomPoint |-> r.bottomPoint, warned |-> r.warned, queries |-> r.queries]

\* dualBoundsPathProjection(topPath, bottomPath)(unitPoint)
CallProjection(topPath, bottomPath, unitPoint) ==
    /\ call = NoCall
    /\ call' = ProjectionRecord(topPath, bottomPath, unitPoint,
                   ProjectionCall(dualBoundsPathProjection(topPath, bottomPath),
                                  topPath, bottomPath, unitPoint))
    /\ UNCHANGED <<warpVars, storeVars, fontVars>>

\* p = dualBoundsPathProjection(upper, lower) on the boundaries of the
\* composite: the client keeps the closure p, which holds the two lengths
\* and refers to the two boundaries.
BuildProjection ==
    /\ call = NoCall
    /\ call' = [op |-> "dualBoundsPathProjection",
                topPath |-> BoundaryCurve(upper), bottomPath |-> BoundaryCurve(lower),
                ret |-> dualBoundsPathProjection(BoundaryCurve(upper),
                                                 BoundaryCurve(lower))]
    /\ UNCHANGED <<warpVars, storeVars, fontVars>>

\* p(unitPoint) on the closure built before: the boundaries it refers to
\* are queried as they are now; builtTop and builtBottom are what they were
\* when p was built.
CallBuiltProjection(unitPoint) ==
    /\ call.op = "dualBoundsPathProjection"
    /\ call' = [ProjectionRecord(BoundaryCurve(upper), BoundaryCurve(lower), unitPoint,
                    ProjectionCall(call.ret, BoundaryCurve(upper), BoundaryCurve(lower),
                                   unitPoint))
                EXCEPT !.op = "builtProjection"]
               @@ [builtTop |-> call.topPath, builtBottom |-> call.bottomPath]
    /\ UNCHANGED <<warpVars, storeVars, fontVars>>

\* The client takes the result.
Return == call # NoCall /\ call' = NoCall /\ UNCHANGED <<warpVars, storeVars, fontVars>>

(***************************************************************************)
(* DualBoundsPathWarp: the constructor and the operations on the           *)
(* composite.                                                              *)
(***************************************************************************)
Styles ==
    { [strokeColor |-> "lightgray", backgroundColor |-> ""],
      [strokeColor |-> "black", backgroundColor |-> "yellow"] }

\* customStyle || { strokeColor: "lightgray" }
DefaultStyle == [strokeColor |-> "lightgray", backgroundColor |-> ""]

\* The boundaries built by the constructor when none are given: the top and
\* the bottom edge of the source's bounding rectangle.
DefaultBounds(src) ==
    LET b == Bounds(src)
        right == RAdd(b.topLeft.x, b.width)
        bottom == RAdd(b.topLeft.y, b.height)
    IN  [upper |-> <<b.topLeft, [x |-> right, y |-> b.topLeft.y]>>,
         lower |-> <<[x |-> b.topLeft.x, y |-> bottom], [x |-> right, y |-> bottom]>>]

\* The ChangeFlag values the composite reads or emits.
SEGMENTS == "SEGMENTS"
GEOMETRY == "GEOMETRY"
ATTRIBUTE == "ATTRIBUTE"

\* The flags of a segment change (Change.SEGMENTS of paper.js) and of
\* boundary changes that are no segment changes.
SegmentChange == {GEOMETRY, SEGMENTS}
OtherChanges == {{ATTRIBUTE}, {GEOMETRY}}
BoundaryChanges == {SegmentChange} \cup OtherChanges

\* boundsWatch(flags): the steps the observer of a boundary takes, in order.
boundsWatchNoticeFirst(flags) ==
    IF SEGMENTS \in flags
    THEN <<"updateOutlineShape", GEOMETRY, "updateWarped">>
    ELSE <<>>
boundsWatchAnyFlag(flags) ==
    IF flags # {}
    THEN <<"updateOutlineShape", "updateWarped", GEOMETRY>>
    ELSE <<>>
boundsWatch(flags) ==
    IF SEGMENTS \in flags
    THEN <<"updateOutlineShape", "updateWarped", GEOMETRY>>
    ELSE <<>>

\* Step name is among the first k of steps.
Ran(steps, name, k) == \E j \in 1..k : j <= Len(steps) /\ steps[j] = name

\* One entry of events: a handler that was entered, a private method that
\* ran, or this._changed(GEOMETRY) with what a listener of the composite
\* reads of the two derived outlines at that moment.
Entered(handler, flags) == [step |-> handler, flags |-> flags]
Step(name) == [step |-> name]
Notice(outlineSegments, warpedChildren) ==
    [step |-> GEOMETRY, outline |-> outlineSegments, warped |-> warpedChildren]

\* The steps of a handler as entries of events: the derived outlines are
\* the old ones before the step that renews them and the new ones after.
StepTrace(steps, oldOutline, newOutline, oldWarped, newWarped) ==
    [k \in 1..Len(steps) |->
        IF steps[k] = GEOMETRY
        THEN Notice(IF Ran(steps, "updateOutlineShape", k)
                    THEN newOutline.segments ELSE oldOutline.segments,
                    IF Ran(steps, "updateWarped", k)
                    THEN newWarped.children ELSE oldWarped.children)
        ELSE Step(steps[k])]

\* The boundaries given to the constructor in the scenario of the warp.
ScenarioBounds == [upper |-> <<Pt(0, 0), Pt(200, 0)>>, lower |-> <<Pt(0, 50), Pt(200, 50)>>]

\* The segment lists a boundary of the model can hold: those of an edit,
\* those given to the constructor and those it derives from a source.
BoundaryValues ==
    BoundarySegments \cup {ScenarioBounds.upper, ScenarioBounds.lower}
    \cup UNION {{DefaultBounds(src).upper, DefaultBounds(src).lower} :
                   src \in SampleCompounds}

\* WarpTrace for every source and every pair of boundaries of the model,
\* evaluated once.
WarpTraces ==
    [children \in {src.children : src \in SampleCompounds},
     up \in BoundaryValues, lo \in BoundaryValues |->
        WarpTrace([children |-> children], [segments |-> up], [segments |-> lo])]

\* private updateWarped(): warpLog keeps, for each contour and each sampled
\* point, the boundary queries made for it.
updateWarped(src, up, lo) ==
    /\ warpLog' = WarpTraces[src.children, up.segments, lo.segments]
    /\ warped' = [warped EXCEPT !.children = ReplaceChildren(@, NewPaths(src, warpLog'))]

\* new DualBoundsPathWarp(src, bounds, style): bounds and style may be absent.
Constructed(src, segs, value) ==
    /\ source = [src EXCEPT !.visible = FALSE]
    /\ selected = FALSE
    /\ upper = [StretchPath(segs.upper) EXCEPT !.visible = selected]
    /\ lower = [StretchPath(segs.lower) EXCEPT !.visible = selected]
    /\ outline = [segments |-> OutlineSegments(upper, lower), closed |-> TRUE,
                  fillColor |-> OutlineFill(value).fillColor,
                  opacity |-> OutlineFill(value).opacity]
    /\ warpLog = WarpTrace(source, upper, lower)
    /\ warped = [children |-> ReplaceChildren(<<>>, NewPaths(source, warpLog)),
                 style |-> value]
    /\ customStyle = value
    /\ events = <<Entered("constructor", {}), Step("updateOutlineShape"),
                  Step("updateWarped")>>
    /\ removed = FALSE

Constructor(src, bounds, style) ==
    Constructed(src,
                IF bounds = NULL THEN DefaultBounds(src) ELSE bounds,
                IF style = NULL THEN DefaultStyle ELSE style)

\* set source(value)
SetSourceRebounding(value) ==
    /\ ~removed
    /\ source' = value
    /\ upper' = [upper EXCEPT !.segments = DefaultBounds(value).upper]
    /\ lower' = [lower EXCEPT !.segments = DefaultBounds(value).lower]
    /\ updateWarped(value, upper', lower')
    /\ events' = <<Entered("set source", {}), Step("updateWarped")>>
    /\ UNCHANGED <<call, outline, customStyle, selected, removed>>
    /\ UNCHANGED <<storeVars, fontVars>>
SetSource(value) ==
    /\ ~removed
    /\ source' = value
    /\ updateWarped(value, upper, lower)
    /\ events' = <<Entered("set source", {}), Step("updateWarped")>>
    /\ UNCHANGED <<call, upper, lower, outline, customStyle, selected, removed>>
    /\ UNCHANGED <<storeVars, fontVars>>

\* boundsWatch(flags) with the SEGMENTS flag, after the segments of the
\* upper boundary were edited to segs.  The observers stay subscribed when
\* the composite is removed: the class has no code that releases them.
EditUpper(segs) ==
    /\ segs # upper.segments
    /\ upper' = [upper EXCEPT !.segments = segs]
    /\ LET steps == boundsWatch(SegmentChange)
       IN  /\ outline' = IF Ran(steps, "updateOutlineShape", Len(steps))
                         THEN [outline EXCEPT !.segments = OutlineSegments(upper', lower)]
                         ELSE outline
           /\ IF Ran(steps, "updateWarped", Len(steps))
              THEN updateWarped(source, upper', lower)
              ELSE UNCHANGED <<warped, warpLog>>
           /\ events' = <<Entered("boundsWatch", SegmentChange)>>
                        \o StepTrace(steps, outline, outline', warped, warped')
    /\ UNCHANGED <<call, source, lower, customStyle, selected, removed>>
    /\ UNCHANGED <<storeVars, fontVars>>

\* The same for the lower boundary.
EditLower(segs) ==
    /\ segs # lower.segments
    /\ lower' = [lower EXCEPT !.segments = segs]
    /\ LET steps == boundsWatch(SegmentChange)
       IN  /\ outline' = IF Ran(steps, "updateOutlineShape", Len(steps))
                         THEN [outline EXCEPT !.segments = OutlineSegments(upper, lower')]
                         ELSE outline
           /\ IF Ran(steps, "updateWarped", Len(steps))
              THEN updateWarped(source, upper, lower')
              ELSE UNCHANGED <<warped, warpLog>>
           /\ events' = <<Entered("boundsWatch", SegmentChange)>>
                        \o StepTrace(steps, outline, outline', warped, warped')
    /\ UNCHANGED <<call, source, upper, customStyle, selected, removed>>
    /\ UNCHANGED <<storeVars, fontVars>>

\* boundsWatch(flags) for a change of a boundary that leaves its anchor
\* points where they are: a segment change of that kind (a handle moved, a
\* point set to the value it has) or a change that is no segment change.
BoundaryChanged(flags) ==
    /\ LET steps == boundsWatch(flags)
       IN  /\ outline' = IF Ran(steps, "updateOutlineShape", Len(steps))
                         THEN [outline EXCEPT !.segments = OutlineSegments(upper, lower)]
                         ELSE outline
           /\ IF Ran(steps, "updateWarped", Len(steps))
              THEN updateWarped(source, upper, lower)
              ELSE UNCHANGED <<warped, warpLog>>
           /\ events' = <<Entered("boundsWatch", flags)>>
                        \o StepTrace(steps, outline, outline', warped, warped')
    /\ UNCHANGED <<call, source, upper, lower, customStyle, selected, removed>>
    /\ UNCHANGED <<storeVars, fontVars>>

\* set customStyle(value)
SetCustomStyleRedrawing(value) ==
    /\ ~removed
    /\ customStyle' = value
    /\ warpLog' = WarpTraces[source.children, upper.segments, lower.segments]
    /\ warped' = [warped EXCEPT !.style = value,
                                !.children = <<>> \o NewPaths(source, warpLog')]
    /\ outline' = [outline EXCEPT !.fillColor = OutlineFill(value).fillColor,
                                  !.opacity = OutlineFill(value).opacity]
    /\ events' = <<Entered("set customStyle", {}), Step("updateWarped")>>
    /\ UNCHANGED <<call, source, upper, lower, selected, removed>>
    /\ UNCHANGED <<storeVars, fontVars>>
SetCustomStyle(value) ==
    /\ ~removed
    /\ customStyle' = value
    /\ warped' = [warped EXCEPT !.style = value]
    /\ outline' = [outline EXCEPT !.fillColor = OutlineFill(value).fillColor,
                                  !.opacity = OutlineFill(value).opacity]
    /\ events' = <<Entered("set customStyle", {})>>
    /\ UNCHANGED <<call, source, upper, lower, selected, warpLog, removed>>
    /\ UNCHANGED <<storeVars, fontVars>>

\* selected is set to value; the observer of the ATTRIBUTE change runs, and
\* each boundary it shows or hides notifies boundsWatch of an ATTRIBUTE
\* change.
SetSelectedUpperOnly(value) ==
    /\ ~removed
    /\ value # selected
    /\ selected' = value
    /\ upper' = [upper EXCEPT !.visible = value]
    /\ events' = <<Entered("observe", {ATTRIBUTE})>>
    /\ UNCHANGED <<call, source, lower, warped, outline, customStyle, warpLog, removed>>
    /\ UNCHANGED <<storeVars, fontVars>>
SetSelected(value) ==
    /\ ~removed
    /\ value # selected
    /\ selected' = value
    /\ IF upper.visible # value
       THEN /\ upper' = [upper EXCEPT !.visible = value]
            /\ lower' = [lower EXCEPT !.visible = value]
            /\ events' = <<Entered("observe", {ATTRIBUTE})>>
                         \o [k \in 1..Len(boundsWatch({ATTRIBUTE})) |->
                                Step(boundsWatch({ATTRIBUTE})[k])]
                         \o [k \in 1..Len(boundsWatch({ATTRIBUTE})) |->
                                Step(boundsWatch({ATTRIBUTE})[k])]
       ELSE /\ events' = <<Entered("observe", {ATTRIBUTE})>>
            /\ UNCHANGED <<upper, lower>>
    /\ UNCHANGED <<call, source, warped, outline, customStyle, warpLog, removed>>
    /\ UNCHANGED <<storeVars, fontVars>>

\* remove(): the composite leaves the scene.  Its owner lets go of it;
\* the boundaries can still change.
Remove ==
    /\ ~removed
    /\ removed' = TRUE
    /\ events' = <<Entered("remove", {})>>
    /\ UNCHANGED <<call, source, upper, lower, warped, outline, customStyle, selected,
                   warpLog>>
    /\ UNCHANGED <<storeVars, fontVars>>

(***************************************************************************)
(* SketchStore: the editor state, the action handlers and the autosave.    *)
(***************************************************************************)
SAVE_DELAY_MS == 500

\* The most subscriptions of the autosave and the most text blocks of a
\* sketch the model follows.
MaxSubscriptions == 2
MaxBlocks == 2

BlockIds == {"b1", "b2", "b3"}

\* The object references a client selects.
Items ==
    { [itemId |-> "b1", itemType |-> "TextBlock"],
      [itemId |-> "b2", itemType |-> "TextBlock"],
      [itemId |-> "b1", itemType |-> "Image"] }

\* What getDefaultDrawing() can give: a sketch with or without an _id.
DefaultDrawings ==
    { [id |-> "greeting", textBlocks |-> <<"b1">>, savedAt |-> ""],
      [id |-> "", textBlocks |-> <<"b1">>, savedAt |-> ""] }

\* state: EditorState = {}; an absent field reads as null, false or "".
NewState ==
    [selection |-> NULL, editingItem |-> NULL, sketch |-> NULL,
     loadingSketch |-> FALSE, sketchIsDirty |-> FALSE, userMessage |-> ""]

\* private setSelection(item, force = true)
setSelection(s, item, force) ==
    IF /\ ~force
       /\ IF item # NULL
          THEN s.selection # NULL /\ s.selection.itemId = item.itemId
          ELSE s.selection = NULL
    THEN s
    ELSE [s EXCEPT !.selection = item]

\* private setEditingItem(item, force?)
setEditingItem(s, item, force) ==
    IF /\ ~force
       /\ IF item # NULL
          THEN s.editingItem # NULL /\ s.editingItem.itemId = item.itemId
          ELSE s.editingItem = NULL
    THEN s
    ELSE [(IF item # NULL THEN setSelection(s, item, TRUE) ELSE s)
            EXCEPT !.editingItem = item]

\* private setDefaultUserMessage()
setDefaultUserMessage(s) ==
    [s EXCEPT !.userMessage =
        IF s.sketchIsDirty \/ s.sketch.savedAt = "" THEN "Unsaved" ELSE "Saved"]

\* private changedSketchContent()
changedSketchContent(s) == setDefaultUserMessage([s EXCEPT !.sketchIsDirty = TRUE])

\* private loadSketch(sketch): loadingSketch is true from the first to the
\* last statement.
loadSketch(s, sketch) ==
    [setDefaultUserMessage([s EXCEPT !.loadingSketch = TRUE, !.sketch = sketch,
                                     !.sketchIsDirty = FALSE])
       EXCEPT !.loadingSketch = FALSE]

\* private loadInitialSketch(): the sketch of the local storage when it has
\* text blocks, else the default drawing.
loadInitialSketch(s, stored, drawing) ==
    IF stored # NULL THEN loadSketch(s, stored) ELSE loadSketch(s, drawing)

\* private saveSketch(sketch): the state and the local storage afterwards.
SavedSketch(sketch) == [sketch EXCEPT !.savedAt = "now"]

saveSketch(s) ==
    setDefaultUserMessage([s EXCEPT !.userMessage = "Saving",
                                    !.sketch = SavedSketch(s.sketch),
                                    !.sketchIsDirty = FALSE])

\* The test of the autosave subscriber.
ShouldSaveAnyState(s) ==
    /\ ~s.loadingSketch
    /\ s.sketch.id # ""
    /\ Len(s.sketch.textBlocks) # 0
ShouldSave(s) ==
    /\ ~s.loadingSketch
    /\ s.sketchIsDirty
    /\ s.sketch.id # ""
    /\ Len(s.sketch.textBlocks) # 0

\* The autosave subscribers that are due run one after the other: st is
\* [state, storage, saved], saved counting the calls of saveSketch.
RECURSIVE RunSubscribers(_, _)
RunSubscribers(st, n) ==
    IF n = 0 THEN st
    ELSE RunSubscribers(
            IF ShouldSave(st.state)
            THEN [state |-> saveSketch(st.state),
                  storage |-> SavedSketch(st.state.sketch),
                  saved |-> st.saved + 1]
            ELSE st,
            n - 1)

\* debounce(() => interval(SAVE_DELAY_MS)) on actions.observe(): an action
\* restarts the delay of every subscription there is.
Observed(t) == [t EXCEPT !.pending = t.subscriptions, !.elapsed = 0]

Did(op) == [op |-> op, saved |-> 0]

StoreInit ==
    /\ state = NewState
    /\ localStorage = NULL
    /\ timer = [subscriptions |-> 0, pending |-> 0, elapsed |-> 0]
    /\ storeLog = Did("constructor")

\* actions.editor.initWorkspace
InitWorkspace(drawing) ==
    /\ timer.subscriptions < MaxSubscriptions
    /\ state' = loadInitialSketch(
                    setEditingItem(setSelection(state, NULL, TRUE), NULL, TRUE),
                    localStorage, drawing)
    /\ timer' = [Observed(timer) EXCEPT !.subscriptions = @ + 1]
    /\ storeLog' = Did("initWorkspace")
    /\ UNCHANGED localStorage
    /\ UNCHANGED <<call, warpVars, fontVars>>

\* actions.editor.exportPNG
ExportPNGKeepingEditor ==
    /\ state' = setSelection(state, NULL, TRUE)
    /\ timer' = Observed(timer)
    /\ storeLog' = Did("exportPNG")
    /\ UNCHANGED localStorage
    /\ UNCHANGED <<call, warpVars, fontVars>>
ExportPNG ==
    /\ state' = setEditingItem(setSelection(state, NULL, TRUE), NULL, FALSE)
    /\ timer' = Observed(timer)
    /\ storeLog' = Did("exportPNG")
    /\ UNCHANGED localStorage
    /\ UNCHANGED <<call, warpVars, fontVars>>

\* actions.editor.exportSVG
ExportSVG ==
    /\ state' = setEditingItem(setSelection(state, NULL, TRUE), NULL, FALSE)
    /\ timer' = Observed(timer)
    /\ storeLog' = Did("exportSVG")
    /\ UNCHANGED localStorage
    /\ UNCHANGED <<call, warpVars, fontVars>>

\* actions.sketch.setSelection
SetSelection(item) ==
    /\ state' = setEditingItem(setSelection(state, item, TRUE), item, FALSE)
    /\ timer' = Observed(timer)
    /\ storeLog' = Did("setSelection")
    /\ UNCHANGED localStorage
    /\ UNCHANGED <<call, warpVars, fontVars>>

\* actions.textBlock.add with a text that is not empty; id is the new
\* block's newid().  Without a sketch the handler throws after it closed
\* the editor.
TextBlockAdd(id) ==
    /\ state.sketch # NULL =>
          /\ id \notin {state.sketch.textBlocks[k] : k \in 1..Len(state.sketch.textBlocks)}
          /\ Len(state.sketch.textBlocks) < MaxBlocks
    /\ state' = IF state.sketch = NULL
                THEN setEditingItem(state, NULL, FALSE)
                ELSE changedSketchContent(
                        [setEditingItem(state, NULL, FALSE)
                           EXCEPT !.sketch.textBlocks = Append(@, id)])
    /\ timer' = Observed(timer)
    /\ storeLog' = Did("textBlock.add")
    /\ UNCHANGED localStorage
    /\ UNCHANGED <<call, warpVars, fontVars>>

\* actions.textBlock.add with an empty text.
TextBlockAddEmpty ==
    /\ state' = setEditingItem(state, NULL, FALSE)
    /\ timer' = Observed(timer)
    /\ storeLog' = Did("textBlock.add")
    /\ UNCHANGED localStorage
    /\ UNCHANGED <<call, warpVars, fontVars>>

\* actions.textBlock.remove; without a sketch the handler throws at once.
TextBlockRemove(id) ==
    /\ state' =
          IF state.sketch = NULL THEN state
          ELSE IF \E k \in 1..Len(state.sketch.textBlocks) : state.sketch.textBlocks[k] = id
          THEN setEditingItem(
                  changedSketchContent(
                     [state EXCEPT !.sketch.textBlocks = SelectSeq(@, LAMBDA b : b # id)]),
                  NULL, FALSE)
          ELSE state
    /\ timer' = Observed(timer)
    /\ storeLog' = Did("textBlock.remove")
    /\ UNCHANGED localStorage
    /\ UNCHANGED <<call, warpVars, fontVars>>

\* dt milliseconds pass without an action, up to the end of the delay.
Advance(dt) ==
    /\ timer.pending > 0
    /\ timer.elapsed < SAVE_DELAY_MS
    /\ timer' = [timer EXCEPT !.elapsed =
                    IF @ + dt < SAVE_DELAY_MS THEN @ + dt ELSE SAVE_DELAY_MS]
    /\ storeLog' = Did("time")
    /\ UNCHANGED <<state, localStorage>>
    /\ UNCHANGED <<call, warpVars, fontVars>>

\* The delay is over: the subscribers of the autosave run.
Autosave ==
    /\ timer.pending > 0
    /\ timer.elapsed >= SAVE_DELAY_MS
    /\ LET run == RunSubscribers([state |-> state, storage |-> localStorage,
                                  saved |-> 0], timer.pending)
       IN  /\ state' = run.state
           /\ localStorage' = run.storage
           /\ storeLog' = [op |-> "autosave", saved |-> run.saved]
    /\ timer' = [timer EXCEPT !.pending = 0]
    /\ UNCHANGED <<call, warpVars, fontVars>>

(***************************************************************************)
(* ParsedFonts: the cache of parsed fonts and the loads under way.         *)
(***************************************************************************)
FontUrls == {"a.ttf", "b.ttf"}

\* The most calls of get the model follows.
MaxGets == 3

\* The font that opentype.load parses from url.
FontOf(url) == [font |-> url]

FontsInit ==
    /\ fonts = [u \in FontUrls |-> NULL]
    /\ loading = <<>>
    /\ fontLog = [gets |-> 0,
                  last |-> [op |-> "constructor"],
                  started |-> [u \in FontUrls |-> 0],
                  onReady |-> [u \in FontUrls |-> 0],
                  fontLoaded |-> [u \in FontUrls |-> 0]]

\* get(fontUrl, onReady): withOnReady says whether a callback was given.
Get(fontUrl, withOnReady) ==
    /\ fontLog.gets < MaxGets
    /\ IF fonts[fontUrl] # NULL
       THEN /\ fontLog' = [fontLog EXCEPT
                              !.gets = @ + 1,
                              !.last = [op |-> "get", url |-> fontUrl, cached |-> TRUE,
                                        font |-> fonts[fontUrl],
                                        onReady |-> withOnReady],
                              !.onReady[fontUrl] = IF withOnReady THEN @ + 1 ELSE @]
            /\ UNCHANGED loading
       ELSE /\ fontLog' = [fontLog EXCEPT
                              !.gets = @ + 1,
                              !.last = [op |-> "get", url |-> fontUrl, cached |-> FALSE,
                                        font |-> NULL, onReady |-> FALSE],
                              !.started[fontUrl] = @ + 1]
            /\ loading' = Append(loading, [url |-> fontUrl, onReady |-> withOnReady])
    /\ UNCHANGED fonts
    /\ UNCHANGED <<call, warpVars, storeVars>>

\* The sequence s without its k-th element.
Without(s, k) == [i \in 1..(Len(s) - 1) |-> IF i < k THEN s[i] ELSE s[i + 1]]

\* The callback of opentype.load for the k-th load under way, without err.
LoadDone(k) ==
    /\ k \in 1..Len(loading)
    /\ fonts' = [fonts EXCEPT ![loading[k].url] = FontOf(loading[k].url)]
    /\ fontLog' = [fontLog EXCEPT
                      !.last = [op |-> "loaded", url |-> loading[k].url],
                      !.onReady[loading[k].url] = IF loading[k].onReady THEN @ + 1 ELSE @,
                      !.fontLoaded[loading[k].url] = @ + 1]
    /\ loading' = Without(loading, k)
    /\ UNCHANGED <<call, warpVars, storeVars>>

\* The same callback with err.
LoadFailed(k) ==
    /\ k \in 1..Len(loading)
    /\ fontLog' = [fontLog EXCEPT !.last = [op |-> "failed", url |-> loading[k].url]]
    /\ loading' = Without(loading, k)
    /\ UNCHANGED fonts
    /\ UNCHANGED <<call, warpVars, storeVars>>

(***************************************************************************)
(* Specifications.                                                         *)
(***************************************************************************)
\* The composite as constructed.
Init ==
    /\ call = NoCall
    /\ StoreInit
    /\ FontsInit
    /\ \E src \in SampleCompounds, bounds \in {NULL, ScenarioBounds},
          style \in {NULL} \cup Styles :
          Constructor(src, bounds, style)

Next ==
    \/ \E value \in SampleCompounds : SetSource(value)
    \/ \E segs \in BoundarySegments : EditUpper(segs)
    \/ \E segs \in BoundarySegments : EditLower(segs)
    \/ \E value \in Styles : SetCustomStyle(value)
    \/ \E value \in BOOLEAN : SetSelected(value)
    \/ \E flags \in BoundaryChanges : BoundaryChanged(flags)
    \/ Remove

Spec == Init /\ [][Next]_vars

\* The helper functions alone, beside one composite that is left as built.
HelperInit ==
    /\ call = NoCall
    /\ StoreInit
    /\ FontsInit
    /\ Constructor(Compound(<<Rect(0, 0, 100, 20)>>), NULL, NULL)

HelperNext ==
    \/ \E path \in SamplePaths, n \in 1..MaxPoints : CallTracePathAsPoints(path, n)
    \/ \E path \in SamplePaths, n \in 1..MaxPoints : CallTracePath(path, n)
    \/ \E path \in SampleCompounds, n \in 1..MaxPoints : CallTraceCompoundPath(path, n)
    \/ \E path \in SamplePaths \cup SampleCompounds, n \in 1..MaxPoints :
          CallTracePathItem(path, n)
    \/ \E path \in SamplePaths, n \in 1..MaxPoints : CallPathHelperTracePath(path, n)
    \/ \E path \in SampleCompounds, n \in 1..MaxPoints :
          CallPathHelperTraceCompoundPath(path, n)
    \/ \E path \in SamplePaths \cup SampleCompounds, n \in 1..MaxPoints :
          CallPathHelperTracePathItem(path, n)
    \/ \E topPath \in BoundaryCurves, bottomPath \in BoundaryCurves,
          u \in UnitValues, v \in UnitValues :
          CallProjection(topPath, bottomPath, [x |-> u, y |-> v])
    \/ Return

HelperSpec == HelperInit /\ [][HelperNext]_vars

\* A client that builds a projector on the boundaries of one composite and
\* calls it while the boundaries are edited.
ProjectorNext ==
    \/ \E segs \in BoundarySegments :
          call.op \in {"none", "dualBoundsPathProjection"} /\ EditUpper(segs)
    \/ \E segs \in BoundarySegments :
          call.op \in {"none", "dualBoundsPathProjection"} /\ EditLower(segs)
    \/ BuildProjection
    \/ \E u \in UnitValues, v \in UnitValues : CallBuiltProjection([x |-> u, y |-> v])
    \/ Return

ProjectorSpec == HelperInit /\ [][ProjectorNext]_vars

\* The store beside one composite that is left as built.
TimeSteps == {SAVE_DELAY_MS \div 2}

StoreNext ==
    \/ \E drawing \in DefaultDrawings : InitWorkspace(drawing)
    \/ ExportPNG
    \/ ExportSVG
    \/ \E item \in Items \cup {NULL} : SetSelection(item)
    \/ \E id \in BlockIds : TextBlockAdd(id)
    \/ TextBlockAddEmpty
    \/ \E id \in BlockIds : TextBlockRemove(id)
    \/ \E dt \in TimeSteps : Advance(dt)
    \/ Autosave

StoreSpec == HelperInit /\ [][StoreNext]_vars

\* ParsedFonts beside one composite that is left as built.
FontNext ==
    \/ \E fontUrl \in FontUrls, withOnReady \in BOOLEAN : Get(fontUrl, withOnReady)
    \/ \E k \in 1..MaxGets : LoadDone(k)
    \/ \E k \in 1..MaxGets : LoadFailed(k)

FontSpec == HelperInit /\ [][FontNext]_vars

(***************************************************************************)
(* Properties of the sampler and of the projector (HelperSpec).            *)
(***************************************************************************)
SamplerOps == {"tracePathAsPoints", "tracePath", "PathHelper.tracePath"}

\* The points a sampler call returned.
SampledPoints == IF call.op = "tracePathAsPoints" THEN call.ret ELSE call.ret.segments

\* The arc length of the i-th sample (i = 0 .. n-1) of a curve of length len
\* sampled at n points: min(i * step, len) with step = len / n.
OffsetOf(i, len, n) == RMin(RMul(Num(i), RDiv(len, Num(n))), len)

\* C1: a sampler call with pointCount n >= 1 queries the curve exactly n
\* times and returns exactly n entries, on every curve, the zero-length
\* ones included.
C1_SampleCount ==
    call.op \in SamplerOps =>
        /\ Len(call.queries) = call.numPoints
        /\ Len(SampledPoints) = call.numPoints

C1_Witness ==
    /\ call.op = "tracePathAsPoints"
    /\ call.numPoints = 3
    /\ Length(call.path) = Num(0)
    /\ Len(call.path.segments) = 2
    /\ Len(call.ret) = 3
    /\ Len(call.queries) = 3

\* C2: the i-th sample (i = 0 .. n-1) is taken at min(i * step, length) with
\* step = length / n; the first sample is at offset 0 and is pointAt(0); the
\* offsets never decrease and never exceed the length.
C2_SampleOffsets ==
    call.op \in SamplerOps =>
        LET len == Length(call.path)
            n == call.numPoints
            q == call.queries
        IN  /\ \A i \in 1..Len(q) : q[i] = OffsetOf(i - 1, len, n)
            /\ \A i \in 1..Len(q) : RLe(q[i], len)
            /\ \A i \in 1..(Len(q) - 1) : RLe(q[i], q[i + 1])
            /\ Len(q) >= 1 => q[1] = Num(0)
            /\ Len(SampledPoints) >= 1 => SampledPoints[1] = getPointAt(call.path, Num(0))
            /\ \A i \in 1..Len(q) : SampledPoints[i] = getPointAt(call.path, q[i])

C2_Witness ==
    /\ call.op = "tracePathAsPoints"
    /\ call.numPoints = 4
    /\ call.path = Rect(0, 0, 100, 20)
    /\ call.queries = <<Num(0), Num(60), Num(120), Num(180)>>
    /\ call.ret = <<Pt(0, 20), Pt(40, 0), Pt(100, 0), Pt(60, 20)>>

\* C3: the projector queries both boundaries with the same u, each against
\* its own length: topPoint = upper.pointAt(u * upperLength), bottomPoint =
\* lower.pointAt(u * lowerLength); v plays no part in either offset.
C3_SameUOwnLength ==
    call.op = "projection" =>
        LET u == call.unitPoint.x
            topAt == RMul(u, Length(call.topPath))
            bottomAt == RMul(u, Length(call.bottomPath))
        IN  /\ call.queries = <<[curve |-> "top", offset |-> topAt],
                                [curve |-> "bottom", offset |-> bottomAt]>>
            /\ call.topPoint = getPointAt(call.topPath, topAt)
            /\ call.bottomPoint = getPointAt(call.bottomPath, bottomAt)

C3_Witness ==
    /\ call.op = "projection"
    /\ call.unitPoint = [x |-> Rat(1, 4), y |-> Rat(1, 2)]
    /\ Length(call.topPath) = Num(200)
    /\ Length(call.bottomPath) = Num(140)
    /\ call.queries[1].offset = Num(50)
    /\ call.queries[2].offset = Num(35)

\* (1 - v) * p + v * q
Blend(p, q, v) == PAdd(PMul(p, RSub(Num(1), v)), PMul(q, v))

\* C4: with both boundary points present the projector returns topPoint +
\* (bottomPoint - topPoint) * v: the upper point at v = 0, the lower point at
\* v = 1, their midpoint at v = 1/2; at (0, 0) it is upper.pointAt(0) and at
\* (0, 1) it is lower.pointAt(0).
C4_LinearInterpolation ==
    call.op = "projection" =>
        LET u == call.unitPoint.x
            v == call.unitPoint.y
            top == getPointAt(call.topPath, RMul(u, Length(call.topPath)))
            bottom == getPointAt(call.bottomPath, RMul(u, Length(call.bottomPath)))
        IN  (top # NULL /\ bottom # NULL) =>
                /\ call.ret = Blend(top, bottom, v)
                /\ v = Num(0) => call.ret = top
                /\ v = Num(1) => call.ret = bottom
                /\ v = Rat(1, 2) => PMul(call.ret, Num(2)) = PAdd(top, bottom)
                /\ (u = Num(0) /\ v = Num(0)) => call.ret = getPointAt(call.topPath, Num(0))
                /\ (u = Num(0) /\ v = Num(1)) => call.ret = getPointAt(call.bottomPath, Num(0))

C4_Witness ==
    /\ call.op = "projection"
    /\ call.unitPoint = [x |-> Rat(1, 2), y |-> Rat(1, 2)]
    /\ call.topPath = Line(0, 0, 200, 0)
    /\ call.bottomPath = MkPath(<<Pt(0, 0), Pt(100, 0), Pt(100, 40)>>, FALSE)
    /\ call.topPoint = Pt(100, 0)
    /\ call.bottomPoint = Pt(70, 0)
    /\ call.ret = Pt(85, 0)

CompoundOps == {"traceCompoundPath", "PathHelper.traceCompoundPath"}
ItemOps == {"tracePathItem", "PathHelper.tracePathItem"}

\* The sample of child at index j (j = 1 .. n) when sampled at n points.
SampleOf(child, j, n) == getPointAt(child, OffsetOf(j - 1, Length(child), n))

\* The result ret samples the compound path at n points per child: one
\* contour per child, in the children's order, each child sampled by itself
\* and each contour with its child's winding flag.
SampledPerChild(path, n, ret) ==
    /\ ret # NULL
    /\ Len(ret.children) = Len(path.children)
    /\ \A i \in 1..Len(path.children) :
          /\ Len(ret.children[i].segments) = n
          /\ \A j \in 1..n :
                ret.children[i].segments[j] = SampleOf(path.children[i], j, n)
          /\ ret.children[i].clockwise = path.children[i].clockwise

\* C8: sampling a compound curve with k >= 1 children yields a compound of
\* exactly k sampled contours in the children's order, each child sampled by
\* itself at the same pointCount, each contour with its own child's winding
\* flag.
C8_CompoundPerChild ==
    (call.op \in CompoundOps /\ Len(call.path.children) >= 1) =>
        SampledPerChild(call.path, call.numPoints, call.ret)

\* C8 for PaperHelpers.traceCompoundPath alone.
C8_PaperHelpersPerChild ==
    (call.op = "traceCompoundPath" /\ Len(call.path.children) >= 1) =>
        SampledPerChild(call.path, call.numPoints, call.ret)

\* C9: sampling a compound curve without children returns null, not an empty
\* compound curve; tracePathItem on such a compound returns that null.
C9_EmptyCompoundIsNull ==
    (/\ call.op \in CompoundOps \cup ItemOps
     /\ IsCompound(call.path)
     /\ Len(call.path.children) = 0) => call.ret = NULL

C9_Witness ==
    /\ call.op = "tracePathItem"
    /\ IsCompound(call.path)
    /\ Len(call.path.children) = 0
    /\ call.ret = NULL

(***************************************************************************)
(* Properties of the warp (Spec).                                          *)
(***************************************************************************)
\* The warp of one point as the specification states it: the point p of the
\* source taken to unit coordinates in the source's bounding rectangle, both
\* boundaries queried at u times their own length, and the two points
\* blended at v; null stays null, and a failed query gives the upper point.
WarpOf(src, up, lo, p) ==
    IF p = NULL THEN NULL
    ELSE LET b == Bounds(src)
             u == RDiv(RSub(p.x, b.topLeft.x), b.width)
             v == RDiv(RSub(p.y, b.topLeft.y), b.height)
             top == getPointAt(BoundaryCurve(up), RMul(u, Length(BoundaryCurve(up))))
             bottom == getPointAt(BoundaryCurve(lo), RMul(u, Length(BoundaryCurve(lo))))
         IN  IF top = NULL \/ bottom = NULL THEN top ELSE Blend(top, bottom, v)

\* The source, the boundaries and the density of the end-to-end scenario.
InScenario ==
    /\ source.children = <<Rect(0, 0, 100, 20)>>
    /\ upper.segments = <<Pt(0, 0), Pt(200, 0)>>
    /\ lower.segments = <<Pt(0, 50), Pt(200, 50)>>

\* C5: the 100x20 rectangle at the origin warped between (0,0)-(200,0) and
\* (0,50)-(200,50) gives one contour of exactly as many points as are
\* sampled (4), the sample (x, y) mapped to (200 * x / 100, 50 * y / 20), so
\* every point lies in the band 0 <= y <= 50.
C5_EndToEnd ==
    InScenario =>
        /\ Len(warped.children) = 1
        /\ Len(warped.children[1].segments) = PointsPerPath
        /\ \A j \in 1..PointsPerPath :
              LET p == SampleOf(source.children[1], j, PointsPerPath)
                  w == warped.children[1].segments[j]
              IN  /\ w.x = RDiv(RMul(Num(200), p.x), Num(100))
                  /\ w.y = RDiv(RMul(Num(50), p.y), Num(20))
                  /\ RLe(Num(0), w.y) /\ RLe(w.y, Num(50))
        /\ PointsPerPath = 4 =>
              warped.children[1].segments = <<Pt(0, 50), Pt(80, 0), Pt(200, 0), Pt(120, 50)>>

C5_Witness ==
    /\ InScenario
    /\ PointsPerPath = 4
    /\ warped.children[1].segments = <<Pt(0, 50), Pt(80, 0), Pt(200, 0), Pt(120, 50)>>

\* C6: the warped outline has exactly one closed contour per contour of the
\* source, in the source's order, each of exactly PointsPerPath transformed
\* points, and nothing of an earlier recompute; none for a source without
\* contours.
C6_OneContourPerSourceContour ==
    /\ Len(warped.children) = Len(source.children)
    /\ \A i \in 1..Len(source.children) :
          /\ i <= Len(warped.children)
          /\ warped.children[i].closed
          /\ Len(warped.children[i].segments) = PointsPerPath
          /\ \A j \in 1..PointsPerPath :
                warped.children[i].segments[j] =
                    WarpOf(source, upper, lower,
                           SampleOf(source.children[i], j, PointsPerPath))
    /\ Len(source.children) = 0 => warped.children = <<>>

C6_Witness ==
    /\ Len(source.children) = 3
    /\ Len(warped.children) = 3
    /\ upper.segments = <<Pt(0, 0), Pt(100, 0), Pt(100, 40)>>
    /\ lower.segments = <<Pt(0, 50), Pt(200, 50)>>
    /\ \A i \in 1..3 : warped.children[i].closed /\ Len(warped.children[i].segments) = PointsPerPath

\* C7: every warped contour has the clockwise flag of its source contour,
\* whatever the boundaries.
C7_WindingPreserved ==
    \A i \in 1..Len(source.children) :
        /\ i <= Len(warped.children)
        /\ warped.children[i].clockwise = source.children[i].clockwise

C7_Witness ==
    /\ Len(source.children) = 2
    /\ source.children[1].clockwise /\ ~source.children[2].clockwise
    /\ Len(warped.children) = 2
    /\ warped.children[1].clockwise /\ ~warped.children[2].clockwise
    /\ upper.segments = <<Pt(0, 50), Pt(200, 50)>>
    /\ lower.segments = <<Pt(0, 0), Pt(100, 0), Pt(100, 40)>>

\* C10: in a warp recompute, a sample that is null is passed through as null
\* and no boundary is queried for it; for any other sample both boundaries
\* are queried, and if either query gives no point the result is the upper
\* query's result as it is: null when the upper query failed, the upper
\* point when only the lower one failed.
C10_FallbackToTopPoint ==
    /\ Len(warpLog) = Len(source.children)
    /\ \A i \in 1..Len(source.children) :
        \A j \in 1..PointsPerPath :
            LET p == SampleOf(source.children[i], j, PointsPerPath)
                r == warpLog[i][j]
                w == warped.children[i].segments[j]
            IN  IF p = NULL THEN r.queries = <<>> /\ w = NULL
                ELSE /\ Len(r.queries) = 2
                     /\ LET top == getPointAt(BoundaryCurve(upper), r.queries[1].offset)
                            bottom == getPointAt(BoundaryCurve(lower), r.queries[2].offset)
                        IN  /\ top = NULL => w = NULL
                            /\ (top # NULL /\ bottom = NULL) => w = top
                            /\ (top = NULL \/ bottom = NULL) <=> r.warned

C10_Witness ==
    /\ Len(source.children) = 3
    /\ Len(upper.segments) = 2
    /\ Len(lower.segments) = 1
    /\ \A j \in 1..PointsPerPath :
          /\ warpLog[3][j].queries = <<>>
          /\ warped.children[3].segments[j] = NULL
    /\ warpLog[1][1].warned
    /\ warped.children[1].segments[1] # NULL
    /\ warped.children[1].segments[1] = getPointAt(BoundaryCurve(upper), warpLog[1][1].queries[1].offset)

(***************************************************************************)
(* Properties of the composite's handlers (Spec).                          *)
(***************************************************************************)
\* The names of the entries of events, in order.
StepNames(e) == [k \in 1..Len(e) |-> e[k].step]

\* The handler of the last step was handler.
Handled(handler) == events[1].step = handler

\* C11: a change notification of a boundary that carries the SEGMENTS flag
\* runs, in this order, updateOutlineShape once, updateWarped once and then
\* one GEOMETRY notification; one without the SEGMENTS flag runs no
\* recompute, emits no notification and leaves both derived outlines as
\* they were.
C11_BoundsWatchSteps ==
    [][events'[1].step = "boundsWatch" =>
          IF SEGMENTS \in events'[1].flags
          THEN StepNames(events') =
                  <<"boundsWatch", "updateOutlineShape", "updateWarped", GEOMETRY>>
          ELSE /\ StepNames(events') = <<"boundsWatch">>
               /\ outline' = outline
               /\ warped' = warped
               /\ warpLog' = warpLog]_vars

C11_Witness ==
    /\ Handled("boundsWatch")
    /\ events[1].flags = {GEOMETRY}
    /\ Len(events) = 1
    /\ ~removed
    /\ upper.segments = <<Pt(0, 0), Pt(100, 0), Pt(100, 40)>>

\* The warped outline as the specification states it: one closed contour
\* per contour of the source, the warp of each of its samples, with the
\* contour's winding.
WarpedOutlineOf(src, up, lo) ==
    [i \in 1..Len(src.children) |->
        Path([j \in 1..PointsPerPath |->
                 WarpOf(src, up, lo, SampleOf(src.children[i], j, PointsPerPath))],
             TRUE, src.children[i].clockwise)]

\* C12: whenever a handler has returned, the warped outline is the warp of
\* the current source through the current boundaries, and a listener
\* notified of GEOMETRY during the handler read exactly that warped outline
\* and the renewed background outline, never an earlier one.
C12_NoStaleWarp ==
    /\ warped.children = WarpedOutlineOf(source, upper, lower)
    /\ \A k \in 1..Len(events) :
          events[k].step = GEOMETRY =>
              /\ events[k].warped = warped.children
              /\ events[k].outline = upper.segments \o Reverse(lower.segments)
              /\ events[k].outline = outline.segments

C12_Witness ==
    /\ Handled("boundsWatch")
    /\ Len(events) = 4
    /\ events[4].step = GEOMETRY
    /\ events[4].warped = warped.children
    /\ Len(source.children) = 2
    /\ source.visible
    /\ lower.segments = <<Pt(0, 0), Pt(100, 0), Pt(100, 40)>>

\* C13: set source stores the value it is given, runs updateWarped exactly
\* once, against that value, and leaves the segments of both boundaries and
\* the background outline as they were.
C13_SetSourceKeepsBoundaries ==
    [][events'[1].step = "set source" =>
          /\ source' \in SampleCompounds
          /\ StepNames(events') = <<"set source", "updateWarped">>
          /\ warped'.children = WarpedOutlineOf(source', upper, lower)
          /\ upper' = upper
          /\ lower' = lower
          /\ outline' = outline]_vars

C13_Witness ==
    /\ Handled("set source")
    /\ Len(source.children) = 3
    /\ upper.segments = <<Pt(0, 50), Pt(200, 50)>>
    /\ lower.segments = <<Pt(5, 5)>>
    /\ upper.segments # DefaultBounds(source).upper
    /\ outline.segments = <<Pt(0, 50), Pt(200, 50), Pt(5, 5)>>

\* C14: as long as the composite is not removed, the source it holds is
\* hidden.
C14_SourceHidden == ~removed => ~source.visible

\* C15: when selected changes, the observer of the ATTRIBUTE change leaves
\* both boundaries visible exactly when the composite is selected, and runs
\* neither updateOutlineShape nor updateWarped.
C15_SelectedShowsBoundaries ==
    [][events'[1].step = "observe" =>
          /\ selected' # selected
          /\ upper'.visible = selected'
          /\ lower'.visible = selected'
          /\ StepNames(events') = <<"observe">>
          /\ outline' = outline
          /\ warped' = warped
          /\ warpLog' = warpLog]_vars

C15_Witness ==
    /\ Handled("observe")
    /\ selected
    /\ upper.visible
    /\ lower.visible
    /\ customStyle.backgroundColor = "yellow"

\* C16: once the composite is removed, a segment change of either former
\* boundary runs no outline recompute and no warp recompute and emits no
\* GEOMETRY notification.
C16_NoRecomputeOnceRemoved ==
    [][(removed /\ events'[1].step = "boundsWatch"
                /\ SEGMENTS \in events'[1].flags) =>
          /\ StepNames(events') = <<"boundsWatch">>
          /\ outline' = outline
          /\ warped' = warped]_vars

\* C17: set customStyle runs neither updateWarped nor updateOutlineShape,
\* emits no GEOMETRY notification and leaves the contours of the warped
\* outline, the segments of the background outline and both boundaries as
\* they were.
C17_StyleKeepsGeometry ==
    [][events'[1].step = "set customStyle" =>
          /\ StepNames(events') = <<"set customStyle">>
          /\ warped'.children = warped.children
          /\ warpLog' = warpLog
          /\ outline'.segments = outline.segments
          /\ upper' = upper
          /\ lower' = lower]_vars

C17_Witness ==
    /\ Handled("set customStyle")
    /\ customStyle.backgroundColor = "yellow"
    /\ warped.style = customStyle
    /\ Len(warped.children) = 2
    /\ upper.segments = <<Pt(0, 0), Pt(100, 0), Pt(100, 40)>>

\* C18: a handler that runs updateWarped while the contours of the source
\* and the segments of both boundaries stay as they are leaves the warped
\* outline point for point as it was: as many contours, the same points in
\* the same order, the same winding flags.
C18_RecomputeIdempotent ==
    [][(/\ Ran(StepNames(events'), "updateWarped", Len(events'))
        /\ source'.children = source.children
        /\ upper'.segments = upper.segments
        /\ lower'.segments = lower.segments) =>
          /\ warped'.children = warped.children
          /\ warpLog' = warpLog]_vars

C18_Witness ==
    /\ Handled("boundsWatch")
    /\ events[1].flags = SegmentChange
    /\ Len(events) = 4
    /\ ~removed
    /\ upper.segments = DefaultBounds(source).upper
    /\ lower.segments = DefaultBounds(source).lower
    /\ Len(warped.children) = 3

\* C19: the background outline has opacity 0 and the fill "white" exactly
\* when the style assigned last has no backgroundColor, and opacity 1 with
\* that backgroundColor as its fill otherwise.
C19_OutlineFollowsStyle ==
    /\ customStyle.backgroundColor = "" <=> outline.opacity = 0
    /\ customStyle.backgroundColor = "" => outline.fillColor = "white"
    /\ customStyle.backgroundColor # "" =>
          /\ outline.opacity = 1
          /\ outline.fillColor = customStyle.backgroundColor
    /\ warped.style = customStyle

C19_Witness ==
    /\ Handled("set customStyle")
    /\ customStyle.backgroundColor = ""
    /\ outline.opacity = 0
    /\ outline.fillColor = "white"
    /\ selected

\* The background outline is the closed path through the upper boundary's
\* segments followed by the lower boundary's segments in reverse order.
OutlineClosesBand ==
    /\ outline.closed
    /\ Len(outline.segments) = Len(upper.segments) + Len(lower.segments)
    /\ \A k \in 1..Len(upper.segments) : outline.segments[k] = upper.segments[k]
    /\ \A k \in 1..Len(lower.segments) :
          outline.segments[Len(outline.segments) + 1 - k] = lower.segments[k]

\* C20: OutlineClosesBand holds after construction and after every handler,
\* and a recompute of the outline for a change of the upper boundary leaves
\* the lower boundary's own segments in their order.
C20_OutlineShape ==
    /\ OutlineClosesBand
    /\ [][/\ OutlineClosesBand'
          /\ (Ran(StepNames(events'), "updateOutlineShape", Len(events'))
              /\ upper'.segments # upper.segments) => lower' = lower]_vars

C20_Witness ==
    /\ Handled("boundsWatch")
    /\ Len(events) = 4
    /\ upper.segments = <<Pt(0, 0), Pt(100, 0), Pt(100, 40)>>
    /\ lower.segments = <<Pt(0, 50), Pt(200, 50)>>
    /\ outline.segments =
          <<Pt(0, 0), Pt(100, 0), Pt(100, 40), Pt(200, 50), Pt(0, 50)>>

(***************************************************************************)
(* Properties of a projector that outlives an edit (ProjectorSpec).        *)
(***************************************************************************)
\* The x of the unit point the composite passes for the sample p of src.
UnitX(src, p) == RDiv(RSub(p.x, Bounds(src).topLeft.x), Bounds(src).width)

\* C21: a projector that was built before a boundary was edited queries the
\* boundaries as they are now, at u times the lengths they had when it was
\* built; every warp recompute of the composite queries at u times the
\* lengths the boundaries have at that recompute.
C21_LengthsReadOnce ==
    /\ call.op = "builtProjection" =>
          /\ call.queries[1].offset = RMul(call.unitPoint.x, Length(call.builtTop))
          /\ call.queries[2].offset = RMul(call.unitPoint.x, Length(call.builtBottom))
          /\ call.topPoint = getPointAt(BoundaryCurve(upper), call.queries[1].offset)
          /\ call.bottomPoint = getPointAt(BoundaryCurve(lower), call.queries[2].offset)
    /\ \A i \in 1..Len(source.children) :
          \A j \in 1..PointsPerPath :
              LET p == SampleOf(source.children[i], j, PointsPerPath)
                  q == warpLog[i][j].queries
              IN  p # NULL =>
                     /\ q[1].offset = RMul(UnitX(source, p), Length(BoundaryCurve(upper)))
                     /\ q[2].offset = RMul(UnitX(source, p), Length(BoundaryCurve(lower)))

C21_Witness ==
    /\ call.op = "builtProjection"
    /\ call.unitPoint.x = Rat(1, 2)
    /\ Length(call.builtTop) = Num(100)
    /\ Length(BoundaryCurve(upper)) = Num(200)
    /\ call.queries[1].offset = Num(50)
    /\ call.topPoint = Pt(50, 0)
    /\ warpLog[1][3].queries[1].offset = Num(200)

C23_AutosaveWhenQuietAndDirty ==
    [][/\ (storeLog'.saved > 0 \/ localStorage' # localStorage) =>
             /\ storeLog'.op = "autosave"
             /\ storeLog'.saved = 1
             /\ timer.pending > 0
             /\ timer.elapsed >= SAVE_DELAY_MS
             /\ ~state.loadingSketch
             /\ state.sketchIsDirty
             /\ state.sketch.id # ""
             /\ Len(state.sketch.textBlocks) > 0
             /\ ~state'.sketchIsDirty
             /\ localStorage' = state'.sketch
             /\ state'.sketch.textBlocks = state.sketch.textBlocks
       /\ storeLog'.op \notin {"time", "autosave"} =>
             /\ timer'.elapsed = 0
             /\ timer'.pending = timer.subscriptions]_vars

C23_Witness ==
    /\ storeLog.op = "autosave"
    /\ storeLog.saved = 1
    /\ timer.subscriptions = 2
    /\ ~state.sketchIsDirty
    /\ localStorage = state.sketch
    /\ state.sketch.textBlocks = <<"b1", "b2">>
    /\ state.userMessage = "Saved"

(***************************************************************************)
(* Properties of ParsedFonts (FontSpec).                                   *)
(***************************************************************************)
\* C24: whatever the order of the calls of get and of the ends of the
\* loads, every URL is loaded at most once and fontLoaded is called at most
\* once for it; a get of a URL in the cache calls onReady at once with the
\* font of the cache and starts no load; a load that fails leaves the cache
\* as it is and calls neither onReady nor fontLoaded.
C24_EachUrlLoadedOnce ==
    [][/\ \A u \in FontUrls :
             /\ fontLog'.started[u] <= 1
             /\ fontLog'.fontLoaded[u] <= 1
       /\ (fontLog'.gets # fontLog.gets /\ fonts[fontLog'.last.url] # NULL) =>
             /\ loading' = loading
             /\ fontLog'.started = fontLog.started
             /\ fontLog'.last.cached
             /\ fontLog'.last.font = fonts[fontLog'.last.url]
             /\ fontLog'.last.onReady =>
                   fontLog'.onReady[fontLog'.last.url]
                      = fontLog.onReady[fontLog'.last.url] + 1
       /\ (fontLog'.gets = fontLog.gets /\ fontLog'.last.op = "failed") =>
             /\ fonts' = fonts
             /\ fontLog'.onReady = fontLog.onReady
             /\ fontLog'.fontLoaded = fontLog.fontLoaded]_vars

=============================================================================
